---- MODULE Spec2Model ----
(***************************************************************************)
(* The document question-answering service:                                *)
(*   - search_similar_chunks_balanced, cosine_similarity and the           *)
(*     lambda_handler of the query processor                               *)
(*     (query_processor/lambda_function.py)                                *)
(*   - ChunkingConfig, split_text and the lambda_handler of the ingestion  *)
(*     (data_ingestion/lambda_function_v2.py)                              *)
(* Each pure function is an operator computed as the code computes it; a   *)
(* specification draws its inputs from bounded sets and applies it.  Each  *)
(* handler is a sequence of steps, one action per call it makes outside.   *)
(* The two handlers share the table: SpecConcurrent interleaves one        *)
(* ingestion with one query, SpecReingest ingests one object several times *)
(* and queries afterwards.                                                 *)
(***************************************************************************)
EXTENDS Integers, Sequences, FiniteSets, TLC

VARIABLES
    items,          \* records returned by the table scan, in scan order
    limit,          \* the limit argument of search_similar_chunks_balanced
    result,         \* result_chunks returned by search_similar_chunks_balanced
    selPc,          \* "idle" | "ready" | "done": position of the selection call
    text,           \* split_text: the text argument
    chunk_size,     \* split_text: the chunk_size argument
    chunk_overlap,  \* split_text: the chunk_overlap argument
    max_chunks,     \* split_text: the max_chunks argument
    start,          \* split_text: the cursor
    chunks,         \* split_text: the chunks emitted so far
    splitPc,        \* "idle" | "loop" | "done": position inside split_text
    file_size,      \* get_chunking_parameters: the file_size argument
    file_type,      \* get_chunking_parameters: the file_type argument
    params,         \* get_chunking_parameters: the returned dict
    sizerPc,        \* "idle" | "ready" | "done": position of that call
    vec1,           \* cosine_similarity: the query embedding
    vec2,           \* cosine_similarity: the chunk embedding
    content_length, \* len(item.get('content', ''))
    final_score,    \* similarity + length_bonus, an exact fraction num / den
    scorePc,        \* "idle" | "ready" | "done": position of the scoring step
    event,          \* query handler: the request
    table,          \* the records of the embeddings table, in scan order
    query,          \* query handler: the parsed question
    scanned,        \* search_similar_chunks_balanced: items scanned so far
    similar_chunks, \* query handler: the selection
    response,       \* query handler: the response returned
    embedCalls,     \* calls of the embedding model made by the handler
    scanCalls,      \* table.scan calls made by the handler
    llmCalls,       \* calls of the language model made by the handler
    failure,        \* which call failed: "none" | "parse" | "embedding" | "scan" | "llm"
    qPc,            \* "idle" | "parse" | "embed" | "scan" | "select" | "generate" | "done"
    decoded_key,    \* ingestion: the object key, a sequence of characters
    ing_file_size,  \* ingestion: ContentLength of the object
    object_chunks,  \* ingestion: the chunks split_text makes of the object's text
    ing_file_type,  \* ingestion: 'PDF' | 'CSV', "none" before the dispatch
    chunking_params,\* ingestion: the dict of get_chunking_parameters
    ing_chunks,     \* ingestion: what split_text returned, "long" | "short" each
    ingI,           \* ingestion: index i of the chunk loop
    attempt,        \* ingestion: index of the retry loop
    embedLog,       \* ingestion: embedding calls and waits of chunk logChunk
    logChunk,       \* ingestion: the chunk embedLog is about
    outcomes,       \* ingestion: what became of chunk 0, 1, ... so far
    processed_chunks,
    failed_chunks,
    ingResponse,    \* ingestion: the response returned
    ingPc,          \* "idle" | "start" | "loop" | "put" | "done"
    ingFailure,     \* ingestion: "none" | "head_object" | "extraction"
    ingEmbedTotal,  \* ingestion: embedding calls made by the run
    ingPutCalls,    \* ingestion: put_item calls made by the run
    ingRun,         \* ingestion: number of the run, 1 for the first
    context_parts,  \* query handler: the parts of the context
    startedAfterIngest \* query handler: the ingestion had returned at its start

selVars == << items, limit, result, selPc >>
splitVars == << text, chunk_size, chunk_overlap, max_chunks, start, chunks, splitPc >>
sizerVars == << file_size, file_type, params, sizerPc >>

\* the variables of the components added after selection and splitting
scoreVars == << vec1, vec2, content_length, final_score, scorePc >>
queryVars == << event, table, query, scanned, similar_chunks, response,
               embedCalls, scanCalls, llmCalls, failure, qPc,
               context_parts, startedAfterIngest >>
queryCtl == << event, query, scanned, similar_chunks, response,
              embedCalls, scanCalls, llmCalls, failure, qPc,
              context_parts, startedAfterIngest >>
ingestVars == << decoded_key, ing_file_size, object_chunks, ing_file_type,
                chunking_params,
                ing_chunks, ingI, attempt, embedLog, logChunk, outcomes,
                processed_chunks, failed_chunks, ingResponse, ingPc,
                ingFailure, ingEmbedTotal, ingPutCalls, ingRun >>
addedVars == << sizerVars, scoreVars, queryVars, ingestVars >>

vars == << selVars, splitVars, addedVars >>

(***************************************************************************)
(* Bounds of the model.                                                    *)
(***************************************************************************)
MaxItems == 8        \* records in the store
MaxLimit == 7        \* largest limit argument tried
MaxDistinct == 8     \* records of a store with pairwise distinct scores
MaxUnscorable == 1   \* records per source file whose embedding does not parse
MaxScore == 2        \* number of distinct final_score values
MaxTextLen == 6      \* characters of the text handed to split_text
MaxChunkSize == 4    \* largest chunk_size (and chunk_overlap) tried
MaxMaxChunks == 4    \* largest max_chunks tried
MaxDelta == 3        \* file sizes tried lie this close to a breakpoint
MaxCoord == 4        \* largest absolute value of an embedding component
MaxQuestionLen == 2  \* characters of a question
MaxStore == 3        \* records in the table when a query is handled
PageSize == 2        \* records returned by one table.scan call
MaxIngestChunks == 2 \* chunks split_text returns to the ingestion handler
MaxRuns == 2         \* invocations of the ingestion handler for one object

(***************************************************************************)
(* Values of the components that are not running.                          *)
(***************************************************************************)
NoParams == [chunk_size |-> 0, chunk_overlap |-> 0, max_chunks |-> 0,
             size_category |-> "none"]

SizerIdle == file_size = 0 /\ file_type = "none" /\ params = NoParams /\ sizerPc = "idle"

NoScore == [num |-> 0, den |-> 1]

ScoreIdle ==
    /\ vec1 = << >> /\ vec2 = << >> /\ content_length = 0
    /\ final_score = NoScore /\ scorePc = "idle"

NoEvent == [params |-> "absent", paramsQuestion |-> << >>,
            body |-> "absent", bodyQuestion |-> << >>]

NoResponse == [statusCode |-> 0, error |-> "", details |-> "", answer |-> "",
               sources |-> {}, context_chunks |-> 0, documents_used |-> 0]

QueryIdle ==
    /\ event = NoEvent /\ table = << >> /\ query = << >> /\ scanned = << >>
    /\ similar_chunks = << >> /\ response = NoResponse
    /\ embedCalls = 0 /\ scanCalls = 0 /\ llmCalls = 0
    /\ failure = "none" /\ qPc = "idle"
    /\ context_parts = << >> /\ startedAfterIngest = FALSE

NoIngestResponse ==
    [statusCode |-> 0, document_id |-> "", chunks_processed |-> 0,
     chunks_failed |-> 0, file_type |-> "none", size_category |-> "none",
     chunk_size |-> 0, chunk_overlap |-> 0, max_chunks |-> 0]

IngestIdle ==
    /\ decoded_key = << >> /\ ing_file_size = 0 /\ object_chunks = << >>
    /\ ing_file_type = "none"
    /\ chunking_params = NoParams /\ ing_chunks = << >>
    /\ ingI = 0 /\ attempt = 0 /\ embedLog = << >> /\ logChunk = 0
    /\ outcomes = << >> /\ processed_chunks = 0 /\ failed_chunks = 0
    /\ ingResponse = NoIngestResponse /\ ingPc = "idle"
    /\ ingFailure = "none" /\ ingEmbedTotal = 0 /\ ingPutCalls = 0 /\ ingRun = 1

AddedIdle == SizerIdle /\ ScoreIdle /\ QueryIdle /\ IngestIdle

\* The values final_score takes; only their order matters to the selection.
Scores == 1..MaxScore

\* A record carries `scorable`: whether lines 167-178 compute a final_score
\* for it (FALSE: parsing or scoring raises and the record is skipped), and
\* `score`: that final_score (unused when not scorable).
Unscorable == [scorable |-> FALSE, score |-> 0]
Scored(v) == [scorable |-> TRUE, score |-> v]

\* Source files present in the store, each ingested under one document_id.
Files == <<"f1", "f2">>
DocumentIdOf == [f \in {"f1", "f2"} |-> IF f = "f1" THEN "d1" ELSE "d2"]

\* line 191: max(2, ...), and line 207: min(6, limit)
MinChunksPerDocument == 2
QualityTop == 6

Min(a, b) == IF a < b THEN a ELSE b
Max(a, b) == IF a > b THEN a ELSE b

(***************************************************************************)
(* Python list slicing s[:n], negative n included.                         *)
(***************************************************************************)
Take(s, n) ==
    IF n >= 0 THEN SubSeq(s, 1, Min(n, Len(s)))
    ELSE SubSeq(s, 1, Max(Len(s) + n, 0))

(***************************************************************************)
(* list.sort(key=lambda x: x[0], reverse=True) / sorted(..., reverse=True):*)
(* a stable sort by score, highest first; equal scores keep their order.   *)
(***************************************************************************)
RECURSIVE InsertDesc(_, _)
InsertDesc(sorted, x) ==
    IF sorted = << >> THEN << x >>
    ELSE IF Head(sorted).score >= x.score
         THEN << Head(sorted) >> \o InsertDesc(Tail(sorted), x)
         ELSE << x >> \o sorted

RECURSIVE SortFrom(_, _)
SortFrom(acc, rest) ==
    IF rest = << >> THEN acc
    ELSE SortFrom(InsertDesc(acc, Head(rest)), Tail(rest))

SortDesc(s) == SortFrom(<< >>, s)

(***************************************************************************)
(* search_similar_chunks_balanced, lines 154-221.                          *)
(***************************************************************************)

\* lines 155-158: the keys of items_by_source, in insertion order (the order
\* in which the scan first meets each source_file).
RECURSIVE SourceOrder(_, _)
SourceOrder(seen, its) ==
    IF its = << >> THEN seen
    ELSE IF \E k \in 1..Len(seen) : seen[k] = Head(its).source_file
         THEN SourceOrder(seen, Tail(its))
         ELSE SourceOrder(Append(seen, Head(its).source_file), Tail(its))

ItemsBySource(its) == SourceOrder(<< >>, its)

\* lines 163-183: (final_score, item) for every record that can be scored,
\* in scan order; a record whose scoring raises is skipped.
RECURSIVE ScoredPairs(_)
ScoredPairs(its) ==
    IF its = << >> THEN << >>
    ELSE IF ~Head(its).scorable
         THEN ScoredPairs(Tail(its))
         ELSE << [score |-> Head(its).score, item |-> Head(its)] >>
              \o ScoredPairs(Tail(its))

\* line 186, AllSimilaritiesUnsorted leaves the scan order.
AllSimilaritiesUnsorted(its) == ScoredPairs(its)

AllSimilarities(its) == SortDesc(ScoredPairs(its))

\* line 191
ChunksPerDocumentMin(its, lim) ==
    IF Len(ItemsBySource(its)) > 0
    THEN Min(MinChunksPerDocument, lim \div Len(ItemsBySource(its)))
    ELSE lim

\* line 191 with the documents counted over the scored records only.
ChunksPerDocumentScoredOnly(its, lim) ==
    IF Len(ItemsBySource(SelectSeq(its, LAMBDA it : it.scorable))) > 0
    THEN Max(MinChunksPerDocument,
             lim \div Len(ItemsBySource(SelectSeq(its, LAMBDA it : it.scorable))))
    ELSE lim

ChunksPerDocument(its, lim) ==
    IF Len(ItemsBySource(its)) > 0
    THEN Max(MinChunksPerDocument, lim \div Len(ItemsBySource(its)))
    ELSE lim

\* lines 195-199, DocSimilaritiesAscending sorts lowest first instead.
RECURSIVE Reverse(_)
Reverse(s) == IF s = << >> THEN << >> ELSE Append(Reverse(Tail(s)), Head(s))

IsOfSource(p, source_file) == p.item.source_file = source_file

DocSimilaritiesAscending(all, source_file) ==
    Reverse(SortDesc(SelectSeq(all, LAMBDA p : IsOfSource(p, source_file))))

DocSimilarities(all, source_file) ==
    SortDesc(SelectSeq(all, LAMBDA p : IsOfSource(p, source_file)))

\* lines 193-201: top chunks of every document, document after document.
RECURSIVE BalancedChunks(_, _, _)
BalancedChunks(all, sources, cpd) ==
    IF sources = << >> THEN << >>
    ELSE Take(DocSimilarities(all, Head(sources)), cpd)
         \o BalancedChunks(all, Tail(sources), cpd)

\* line 207, OverallTopChunksFive takes one fewer.
OverallTopChunksFive(all, lim) == Take(all, Min(QualityTop - 1, lim))

OverallTopChunks(all, lim) == Take(all, Min(QualityTop, lim))

\* lines 190-208: selected_chunks after both strategies
SelectedChunks(its, lim) ==
    BalancedChunks(AllSimilarities(its), ItemsBySource(its),
                   ChunksPerDocument(its, lim))
    \o OverallTopChunks(AllSimilarities(its), lim)

\* line 213: f"{item.get('document_id')}_{item.get('chunk_id')}"
ChunkKey(item) == item.document_id \o "_" \o item.chunk_id

\* lines 211-215: unique_chunks as the list of its (key, value) entries in
\* insertion order; a key met again keeps its place and takes the value only
\* if the score is strictly higher.
RECURSIVE DictPut(_, _)
DictPut(entries, p) ==
    IF entries = << >> THEN << [key |-> ChunkKey(p.item), value |-> p] >>
    ELSE IF Head(entries).key = ChunkKey(p.item)
         THEN IF p.score > Head(entries).value.score
              THEN << [key |-> ChunkKey(p.item), value |-> p] >> \o Tail(entries)
              ELSE entries
         ELSE << Head(entries) >> \o DictPut(Tail(entries), p)

RECURSIVE DictFill(_, _)
DictFill(entries, selected) ==
    IF selected = << >> THEN entries
    ELSE DictFill(DictPut(entries, Head(selected)), Tail(selected))

\* UniqueChunksNoDedup keeps every selected entry.
UniqueChunksNoDedup(selected) ==
    [k \in 1..Len(selected) |->
        [key |-> ChunkKey(selected[k].item), value |-> selected[k]]]

UniqueChunks(selected) == DictFill(<< >>, selected)

\* line 218, FinalChunksAscending sorts lowest first instead.
FinalChunksAscending(unique) ==
    Reverse(SortDesc([k \in 1..Len(unique) |-> unique[k].value]))

FinalChunks(unique) == SortDesc([k \in 1..Len(unique) |-> unique[k].value])

\* line 221, ResultChunksUntruncated forgets the slice.
ResultChunksUntruncated(final, lim) == [k \in 1..Len(final) |-> final[k].item]

ResultChunks(final, lim) ==
    [k \in 1..Len(Take(final, lim)) |-> Take(final, lim)[k].item]

\* lines 104-235
search_similar_chunks_balanced(its, lim) ==
    ResultChunks(FinalChunks(UniqueChunks(SelectedChunks(its, lim))), lim)

(***************************************************************************)
(* The store contents a query can scan.  The table key is                  *)
(* (document_id, chunk_id), so no two records share it.  Ingestion writes  *)
(* chunk_id = "chunk_<i>" under the document_id of the run and the object  *)
(* key as source_file.  Within one file the records are enumerated with    *)
(* the unscorable ones first and the scores in non-decreasing order: chunk *)
(* ids are interchangeable, so every other arrangement of the same scores  *)
(* within a file is a renaming of one of these.                            *)
(***************************************************************************)
NonDecreasing(n) ==
    { s \in [1..n -> Scores] : \A i \in 1..(n - 1) : s[i] <= s[i + 1] }

FileScores(n) ==
    UNION { { [i \in 1..u |-> Unscorable] \o [i \in 1..(n - u) |-> Scored(s[i])] :
              s \in NonDecreasing(n - u) } :
            u \in 0..Min(n, MaxUnscorable) }

FileItems(f, scores) ==
    [i \in 1..Len(scores) |->
        [source_file |-> f,
         document_id |-> DocumentIdOf[f],
         chunk_id    |-> "chunk_" \o ToString(i - 1),
         scorable    |-> scores[i].scorable,
         score       |-> scores[i].score]]

SplitIdle ==
    /\ text = << >>
    /\ chunk_size = 1
    /\ chunk_overlap = 0
    /\ max_chunks = 0
    /\ start = 0
    /\ chunks = << >>
    /\ splitPc = "idle"

InitSelect ==
    /\ \E n1 \in 0..MaxItems : \E n2 \in 0..(MaxItems - n1) :
         \E s1 \in FileScores(n1) : \E s2 \in FileScores(n2) :
            items = FileItems(Files[1], s1) \o FileItems(Files[2], s2)
    /\ limit \in 0..MaxLimit
    /\ result = << >>
    /\ selPc = "ready"
    /\ SplitIdle /\ AddedIdle

\* One call of search_similar_chunks_balanced(query_embedding, limit).
Search ==
    /\ selPc = "ready"
    /\ result' = search_similar_chunks_balanced(items, limit)
    /\ selPc' = "done"
    /\ UNCHANGED << items, limit >>
    /\ UNCHANGED << splitVars, addedVars >>

NextSelect == Search

SpecSelect == InitSelect /\ [][NextSelect]_vars

\* A store of n records whose scores are pairwise distinct: the record at
\* scan position i belongs to any of the documents and scores i, or
\* n + 1 - i when the scan meets the best record first.
DistinctItems(n, src, descending) ==
    [i \in 1..n |->
        [source_file |-> src[i],
         document_id |-> DocumentIdOf[src[i]],
         chunk_id    |-> "chunk_" \o ToString(i - 1),
         scorable    |-> TRUE,
         score       |-> IF descending THEN n + 1 - i ELSE i]]

InitSelectDistinct ==
    /\ \E n \in 0..MaxDistinct :
         \E src \in [1..n -> { Files[1], Files[2] }] :
            \E descending \in BOOLEAN :
               items = DistinctItems(n, src, descending)
    /\ limit \in 0..MaxLimit
    /\ result = << >>
    /\ selPc = "ready"
    /\ SplitIdle /\ AddedIdle

SpecSelectDistinct == InitSelectDistinct /\ [][NextSelect]_vars

(***************************************************************************)
(* split_text, data_ingestion/lambda_function_v2.py lines 250-284.         *)
(* The text is the sequence of its character positions 1..n (all its       *)
(* characters distinct), so the content of a chunk tells which slice of    *)
(* the text it is.                                                         *)
(***************************************************************************)
SelIdle ==
    /\ items = << >>
    /\ limit = 0
    /\ result = << >>
    /\ selPc = "idle"

\* text[a:b] for 0 <= a and 0 <= b <= len(text)
Slice(t, a, b) == SubSeq(t, a + 1, b)

\* lines 267-269
ChunkEnd(t, s, size) == IF s + size > Len(t) THEN Len(t) ELSE s + size

\* lines 275-277, NextStartForward adds the overlap instead of subtracting it.
NextStartForward(end, overlap) ==
    IF end + overlap < 0 THEN 0 ELSE end + overlap

NextStart(end, overlap) ==
    IF end - overlap < 0 THEN 0 ELSE end - overlap

\* line 266, LoopConditionOffByOne lets one chunk too many through.
LoopConditionOffByOne(t, s, cs, mc) == s < Len(t) /\ Len(cs) <= mc

LoopCondition(t, s, cs, mc) == s < Len(t) /\ Len(cs) < mc

InitSplit ==
    /\ \E n \in 0..MaxTextLen : text = [i \in 1..n |-> i]
    /\ chunk_size \in 1..MaxChunkSize
    /\ chunk_overlap \in 0..MaxChunkSize
    /\ max_chunks \in 0..MaxMaxChunks
    /\ start = 0
    /\ chunks = << >>
    /\ splitPc = "loop"
    /\ SelIdle /\ AddedIdle

\* lines 266-279: one iteration of the while loop; the break of line 279
\* leaves the loop.
SplitIterate ==
    /\ splitPc = "loop"
    /\ LoopCondition(text, start, chunks, max_chunks)
    /\ LET end == ChunkEnd(text, start, chunk_size)
       IN  /\ chunks' = Append(chunks, Slice(text, start, end))
           /\ start' = NextStart(end, chunk_overlap)
           /\ splitPc' = IF NextStart(end, chunk_overlap) >= Len(text)
                         THEN "done" ELSE "loop"
    /\ UNCHANGED << text, chunk_size, chunk_overlap, max_chunks >>
    /\ UNCHANGED << selVars, addedVars >>

\* line 266 with the loop condition false, then line 284: return chunks
SplitReturn ==
    /\ splitPc = "loop"
    /\ ~LoopCondition(text, start, chunks, max_chunks)
    /\ splitPc' = "done"
    /\ UNCHANGED << text, chunk_size, chunk_overlap, max_chunks, start, chunks >>
    /\ UNCHANGED << selVars, addedVars >>

NextSplit == SplitIterate \/ SplitReturn

SpecSplit == InitSplit /\ [][NextSplit]_vars

\* A call of split_text that has started keeps executing.
SpecSplitFair == SpecSplit /\ WF_vars(NextSplit)

(***************************************************************************)
(* Vocabulary of the selection claims, stated on the scanned records       *)
(* themselves (sets of scan positions), independently of the list          *)
(* manipulations above.                                                    *)
(***************************************************************************)
SelDone == selPc = "done"

\* scan positions of the scored candidates
ScorableIdx == { i \in 1..Len(items) : items[i].scorable }

\* source documents with at least one scored candidate / with any record
ScoredSources == { items[i].source_file : i \in ScorableIdx }
AllSources == { items[i].source_file : i \in 1..Len(items) }

\* i ranks before j: higher score, equal scores in scan order
Better(i, j) ==
    \/ items[i].score > items[j].score
    \/ items[i].score = items[j].score /\ i < j

RankIn(S, i) == Cardinality({ j \in S : Better(j, i) })

SameSource(i) == { j \in ScorableIdx : items[j].source_file = items[i].source_file }

InResult(i) == \E k \in 1..Len(result) : result[k] = items[i]

SameKey(a, b) == a.document_id = b.document_id /\ a.chunk_id = b.chunk_id

\* the seven steps with n documents counted in step 2
StepCpd(n) == IF n = 0 THEN limit ELSE Max(2, limit \div n)
StepBalanced(n) == { i \in ScorableIdx : RankIn(SameSource(i), i) < StepCpd(n) }
StepQuality == { i \in ScorableIdx : RankIn(ScorableIdx, i) < Min(6, limit) }
StepUnion(n) == StepBalanced(n) \cup StepQuality

\* result is the union deduplicated, sorted by score descending and cut to
\* limit (the order among equal scores is left open, as the steps leave it)
IsSevenStepResult(n) ==
    LET union == StepUnion(n)
    IN  /\ Len(result) = Min(limit, Cardinality(union))
        /\ \A k \in 1..Len(result) : \E i \in union : result[k] = items[i]
        /\ \A k, l \in 1..Len(result) : k < l =>
              /\ ~SameKey(result[k], result[l])
              /\ result[k].score >= result[l].score
        /\ \A i \in union : (~InResult(i) /\ result # << >>) =>
              result[Len(result)].score >= items[i].score

\* the balanced pool of the run, as the list of its records
BalancedItems ==
    LET pool == BalancedChunks(AllSimilarities(items), ItemsBySource(items),
                               ChunksPerDocument(items, limit))
    IN  [k \in 1..Len(pool) |-> pool[k].item]

(***************************************************************************)
(* C1: for every limit >= 1 the result of the balanced selection contains  *)
(* a candidate whose score is the maximum score over all scored            *)
(* candidates.                                                             *)
(***************************************************************************)
C1_BestScoreIncluded ==
    (SelDone /\ limit >= 1) =>
        \A i \in ScorableIdx :
            (\A j \in ScorableIdx : items[j].score <= items[i].score)
            => \E k \in 1..Len(result) : result[k].score = items[i].score

\* more candidates than limit, of different scores, in two documents
C1_Witness ==
    /\ SelDone /\ limit >= 1
    /\ Cardinality(ScorableIdx) > limit
    /\ Cardinality(ScoredSources) = 2
    /\ \E i, j \in ScorableIdx : items[i].score < items[j].score
    /\ \E k \in 1..Len(result) : \A j \in ScorableIdx : items[j].score <= result[k].score

(***************************************************************************)
(* C2 as claimed: whenever the store holds at least limit scorable         *)
(* records, the selection returns exactly limit entries.                   *)
(***************************************************************************)
C2_ExactlyLimit_Original ==
    (SelDone /\ Cardinality(ScorableIdx) >= limit) => Len(result) = limit

(***************************************************************************)
(* C2 amended: whenever the store holds at least limit scorable records    *)
(* and either limit <= 6 or all records of the store share one source      *)
(* document, the selection returns exactly limit entries.                  *)
(***************************************************************************)
C2_ExactlyLimit ==
    (/\ SelDone
     /\ Cardinality(ScorableIdx) >= limit
     /\ (limit <= 6 \/ Cardinality(AllSources) <= 1))
    => Len(result) = limit

C2_Witness ==
    /\ SelDone /\ limit >= 3
    /\ Cardinality(ScorableIdx) > limit
    /\ Cardinality(AllSources) = 2
    /\ Len(result) = limit

(***************************************************************************)
(* C3 as claimed: when the number of source documents with a scored        *)
(* candidate is at most limit, the result contains at least one chunk of   *)
(* each of them.                                                           *)
(***************************************************************************)
C3_EveryDocumentRepresented ==
    (SelDone /\ Cardinality(ScoredSources) <= limit) =>
        \A f \in ScoredSources : \E k \in 1..Len(result) : result[k].source_file = f

(***************************************************************************)
(* C4 as claimed: the result is the outcome of the seven steps, the        *)
(* scored candidates being partitioned by source document and              *)
(* number_of_distinct_documents counting the documents of that partition.  *)
(***************************************************************************)
C4_SevenSteps_Original == SelDone => IsSevenStepResult(Cardinality(ScoredSources))

(***************************************************************************)
(* C4 amended: the result is the outcome of the seven steps with           *)
(* number_of_distinct_documents counting the source_file values of all     *)
(* scanned records, those that cannot be scored included.                  *)
(***************************************************************************)
C4_SevenSteps == SelDone => IsSevenStepResult(Cardinality(AllSources))

\* both pools contribute a record the other lacks, and the union is cut
C4_Witness ==
    /\ SelDone
    /\ Cardinality(StepUnion(Cardinality(AllSources))) > limit
    /\ StepBalanced(Cardinality(AllSources)) \ StepQuality # {}
    /\ StepQuality \ StepBalanced(Cardinality(AllSources)) # {}
    /\ Len(result) = limit

(***************************************************************************)
(* C5: for every limit >= 0 the selection returns at most limit records.   *)
(***************************************************************************)
C5_AtMostLimit == SelDone => Len(result) <= limit

\* the deduplicated union holds more than limit records
C5_Witness ==
    /\ SelDone /\ limit >= 1
    /\ Cardinality(StepUnion(Cardinality(AllSources))) > limit
    /\ Len(result) = limit

(***************************************************************************)
(* C6: no two records of the result have the same (document_id, chunk_id). *)
(***************************************************************************)
C6_NoDuplicateKeys ==
    SelDone => \A k, l \in 1..Len(result) : k # l => ~SameKey(result[k], result[l])

\* a record picked by both pools is in the result
C6_Witness ==
    /\ SelDone
    /\ \E i \in StepBalanced(Cardinality(AllSources)) \cap StepQuality : InResult(i)
    /\ Len(result) >= 2

(***************************************************************************)
(* C7 as claimed: if all scored candidates share one source document then, *)
(* for every limit >= 1, chunks_per_document equals limit and the result   *)
(* is the balanced pool alone.                                             *)
(***************************************************************************)
C7_SingleDocument_Original ==
    (SelDone /\ limit >= 1 /\ Cardinality(ScoredSources) = 1) =>
        /\ ChunksPerDocument(items, limit) = limit
        /\ result = BalancedItems

(***************************************************************************)
(* C7 amended: if all records of the store share one source document then, *)
(* for every limit >= 2, chunks_per_document equals limit and the result   *)
(* is the balanced pool alone, that document's top-limit candidates by     *)
(* score; for limit = 1, chunks_per_document is 2 and the result is the    *)
(* first entry of the balanced pool.                                       *)
(***************************************************************************)
C7_SingleDocument ==
    (SelDone /\ limit >= 1 /\ Cardinality(AllSources) = 1) =>
        /\ ChunksPerDocument(items, limit) = Max(2, limit)
        /\ result = Take(BalancedItems, limit)
        /\ \A i \in ScorableIdx : InResult(i) <=> RankIn(ScorableIdx, i) < limit
        /\ \A k, l \in 1..Len(result) : k < l => result[k].score >= result[l].score

\* one document with more candidates than limit, of different scores
C7_Witness ==
    /\ SelDone /\ limit >= 2
    /\ Cardinality(AllSources) = 1
    /\ Cardinality(ScorableIdx) > limit
    /\ \E i, j \in ScorableIdx : items[i].score < items[j].score
    /\ result = BalancedItems

(***************************************************************************)
(* Vocabulary of the split_text claims.                                    *)
(***************************************************************************)
SplitDone == splitPc = "done"

ValidChunking == 0 <= chunk_overlap /\ chunk_overlap < chunk_size /\ max_chunks >= 1

\* the character positions a chunk holds
Positions(chunk) == { chunk[k] : k \in 1..Len(chunk) }

Covered == UNION { Positions(chunks[k]) : k \in 1..Len(chunks) }

(***************************************************************************)
(* C8 as claimed: a non-empty text shorter than chunk_size, with valid     *)
(* chunking parameters, yields exactly one chunk and that chunk is the     *)
(* whole text.                                                             *)
(***************************************************************************)
C8_ShortTextOneChunk ==
    (SplitDone /\ ValidChunking /\ Len(text) >= 1 /\ Len(text) < chunk_size)
    => chunks = << text >>

(***************************************************************************)
(* C9 as claimed: with valid chunking parameters every character position  *)
(* of the text lies inside at least one returned chunk.                    *)
(***************************************************************************)
C9_CoversText_Original ==
    (SplitDone /\ ValidChunking) => Covered = 1..Len(text)

(***************************************************************************)
(* C9 amended: with valid chunking parameters the returned chunks cover a  *)
(* prefix of the text without gaps, and they cover the whole text whenever *)
(* len(text) <= chunk_size + (max_chunks - 1) * (chunk_size -              *)
(* chunk_overlap), that is unless max_chunks cuts the splitting short.     *)
(***************************************************************************)
C9_CoversText ==
    (SplitDone /\ ValidChunking) =>
        /\ \A q \in Covered : \A r \in 1..q : r \in Covered
        /\ Len(text) <= chunk_size + (max_chunks - 1) * (chunk_size - chunk_overlap)
           => Covered = 1..Len(text)

\* several overlapping chunks that together cover a text longer than one chunk
C9_Witness ==
    /\ SplitDone /\ ValidChunking
    /\ chunk_overlap >= 1
    /\ Len(text) > chunk_size
    /\ Len(chunks) >= 3
    /\ Covered = 1..Len(text)

(***************************************************************************)
(* C10 as claimed: with valid chunking parameters every pair of            *)
(* consecutive chunks, except possibly the pair ending in the final chunk, *)
(* shares exactly chunk_overlap characters of the text.                    *)
(***************************************************************************)
C10_ExactOverlap ==
    (SplitDone /\ ValidChunking) =>
        \A k \in 1..(Len(chunks) - 2) :
            Cardinality(Positions(chunks[k]) \cap Positions(chunks[k + 1]))
                = chunk_overlap

(***************************************************************************)
(* ChunkingConfig (data_ingestion/lambda_function_v2.py).                  *)
(***************************************************************************)
FileTypes == {"PDF", "CSV"}

CHUNK_SIZES ==
    [PDF |-> [small |-> 2000, medium |-> 2500, large |-> 3000, xlarge |-> 3500],
     CSV |-> [small |-> 1500, medium |-> 2000, large |-> 2500, xlarge |-> 3000]]

\* 0.15 and 0.10, held as hundredths
OVERLAP_PERCENTAGES == [PDF |-> 15, CSV |-> 10]

MAX_CHUNKS_CONFIG ==
    [PDF |-> [small |-> 20, medium |-> 50, large |-> 80, xlarge |-> 120],
     CSV |-> [small |-> 15, medium |-> 30, large |-> 50, xlarge |-> 75]]

\* the size at which a file stops being small, medium, large
Breakpoints ==
    [PDF |-> << 100 * 1024, 500 * 1024, 1024 * 1024 >>,
     CSV |-> << 50 * 1024, 200 * 1024, 500 * 1024 >>]

\* any file_type other than 'PDF' takes the else branch
get_size_category(fsize, ftype) ==
    LET b == IF ftype = "PDF" THEN Breakpoints.PDF ELSE Breakpoints.CSV
    IN  IF fsize < b[1] THEN "small"
        ELSE IF fsize < b[2] THEN "medium"
        ELSE IF fsize < b[3] THEN "large"
        ELSE "xlarge"

\* int(size * percentage) without the division by 100
OverlapOfUnscaled(size, hundredths) == size * hundredths

\* int(size * percentage): for every size of CHUNK_SIZES the float product
\* size * 0.15 or size * 0.10 is the exact integer size * hundredths / 100
OverlapOf(size, hundredths) == (size * hundredths) \div 100

\* max_chunks read from the CSV row whatever the file type
get_chunking_parametersCsvCaps(fsize, ftype) ==
    LET size_category == get_size_category(fsize, ftype)
    IN  [chunk_size    |-> CHUNK_SIZES[ftype][size_category],
         chunk_overlap |-> OverlapOf(CHUNK_SIZES[ftype][size_category],
                                     OVERLAP_PERCENTAGES[ftype]),
         max_chunks    |-> MAX_CHUNKS_CONFIG.CSV[size_category],
         size_category |-> size_category]

get_chunking_parameters(fsize, ftype) ==
    LET size_category == get_size_category(fsize, ftype)
    IN  [chunk_size    |-> CHUNK_SIZES[ftype][size_category],
         chunk_overlap |-> OverlapOf(CHUNK_SIZES[ftype][size_category],
                                     OVERLAP_PERCENTAGES[ftype]),
         max_chunks    |-> MAX_CHUNKS_CONFIG[ftype][size_category],
         size_category |-> size_category]

\* byte sizes tried: 0, every breakpoint and 50,000, each with its neighbours
FileSizes ==
    LET bases == {0, 50000} \cup {Breakpoints[t][k] : t \in FileTypes, k \in 1..3}
    IN  {b + d : b \in bases, d \in (0 - MaxDelta)..MaxDelta} \cap Nat

InitSizer ==
    /\ file_size \in FileSizes
    /\ file_type \in FileTypes
    /\ params = NoParams
    /\ sizerPc = "ready"
    /\ SelIdle /\ SplitIdle /\ ScoreIdle /\ QueryIdle /\ IngestIdle

\* One call of ChunkingConfig.get_chunking_parameters(file_size, file_type).
GetChunkingParameters ==
    /\ sizerPc = "ready"
    /\ params' = get_chunking_parameters(file_size, file_type)
    /\ sizerPc' = "done"
    /\ UNCHANGED << file_size, file_type >>
    /\ UNCHANGED << selVars, splitVars, scoreVars, queryVars, ingestVars >>

NextSizer == GetChunkingParameters

SpecSizer == InitSizer /\ [][NextSizer]_vars

SizerDone == sizerPc = "done"


(***************************************************************************)
(* cosine_similarity and the final score of one record                     *)
(* (query_processor/lambda_function.py).  Scores are exact fractions: the  *)
(* embeddings tried have integer components and an integer magnitude, so   *)
(* math.sqrt is exact on them.                                             *)
(***************************************************************************)
SumSq(v) == v[1] * v[1] + v[2] * v[2]

IsSquare(n) == \E r \in 0..n : r * r = n

\* math.sqrt(sum(x * x for x in vec))
Magnitude(v) == CHOOSE r \in 0..SumSq(v) : r * r = SumSq(v)

\* sum(x * y for x, y in zip(vec1, vec2))
DotProduct(v, w) == v[1] * w[1] + v[2] * w[2]

Embeddings ==
    {v \in [1..2 -> (0 - MaxCoord)..MaxCoord] : IsSquare(SumSq(v))}

\* stored content is at most 2000 characters; 120 / 800 = 0.15
ContentLengths == {0, 80, 120, 121, 2000}

\* the cosine as a fraction num / den with den > 0
cosine_similarity(v, w) ==
    IF Magnitude(v) = 0 \/ Magnitude(w) = 0
    THEN [num |-> 0, den |-> 1]
    ELSE [num |-> DotProduct(v, w), den |-> Magnitude(v) * Magnitude(w)]

\* the length bonus without its cap, in 800ths
LengthBonusUncapped(len) == len

\* min(content_length / 800, 0.15), in 800ths: 0.15 is 120 / 800
LengthBonus(len) == Min(len, (15 * 800) \div 100)

\* final_score = similarity + length_bonus
FinalScore(v, w, len) ==
    LET similarity == cosine_similarity(v, w)
    IN  [num |-> similarity.num * 800 + LengthBonus(len) * similarity.den,
         den |-> similarity.den * 800]

InitScore ==
    /\ vec1 \in Embeddings
    /\ vec2 \in Embeddings
    /\ content_length \in ContentLengths
    /\ final_score = NoScore
    /\ scorePc = "ready"
    /\ SelIdle /\ SplitIdle /\ SizerIdle /\ QueryIdle /\ IngestIdle

\* The body of the scoring loop for one record whose embedding parses.
ScoreItem ==
    /\ scorePc = "ready"
    /\ final_score' = FinalScore(vec1, vec2, content_length)
    /\ scorePc' = "done"
    /\ UNCHANGED << vec1, vec2, content_length >>
    /\ UNCHANGED << selVars, splitVars, sizerVars, queryVars, ingestVars >>

NextScore == ScoreItem

SpecScore == InitScore /\ [][NextScore]_vars

ScoreDone == scorePc = "done"


(***************************************************************************)
(* lambda_handler of the query processor                                   *)
(* (query_processor/lambda_function.py).  A question is a sequence of      *)
(* characters; the request carries it in queryStringParameters or in a     *)
(* JSON body.                                                              *)
(***************************************************************************)
HandlerLimit == 40

Whitespace == {" "}
Chars == {" ", "a"}

Questions == UNION { [1..n -> Chars] : n \in 0..MaxQuestionLen }

RECURSIVE LStrip(_)
LStrip(q) ==
    IF q = << >> THEN q
    ELSE IF Head(q) \in Whitespace THEN LStrip(Tail(q)) ELSE q

RECURSIVE RStrip(_)
RStrip(q) ==
    IF q = << >> THEN q
    ELSE IF q[Len(q)] \in Whitespace THEN RStrip(SubSeq(q, 1, Len(q) - 1)) ELSE q

\* str.strip()
Strip(q) == RStrip(LStrip(q))

(***************************************************************************)
(* event.params is the shape of event['queryStringParameters']:            *)
(*   "absent" (no key or None), "empty" ({}), "noQuestion" (a dict without *)
(*   the key question), "question" (a dict holding paramsQuestion).        *)
(* event.body is the shape of event['body']:                               *)
(*   "absent" (no key, None or ''), "invalidJson", "nonObject" (JSON that  *)
(*   is no object: [], null, "text"), "noQuestion" (an object without the  *)
(*   key), "nonStringQuestion" ({"question": null}), "question".           *)
(***************************************************************************)
BodyKinds == {"absent", "invalidJson", "nonObject", "noQuestion",
              "nonStringQuestion", "question"}

Events ==
    { [params |-> "question", paramsQuestion |-> q,
       body |-> "absent", bodyQuestion |-> << >>] : q \in Questions }
    \cup
    { [params |-> p, paramsQuestion |-> << >>, body |-> b, bodyQuestion |-> << >>] :
        p \in {"absent", "empty"}, b \in BodyKinds \ {"question"} }
    \cup
    { [params |-> p, paramsQuestion |-> << >>, body |-> "question", bodyQuestion |-> q] :
        p \in {"absent", "empty"}, q \in Questions }
    \cup
    { [params |-> "noQuestion", paramsQuestion |-> << >>,
       body |-> "question", bodyQuestion |-> << "a" >>] }

\* lines 327-339: the question read from the event, or the AttributeError
\* raised by body.get or by query.strip() on a value that has no such method
ParseQuestion(ev) ==
    IF ev.params \in {"noQuestion", "question"}
    THEN [raised |-> FALSE,
          query |-> IF ev.params = "question" THEN ev.paramsQuestion ELSE << >>]
    ELSE IF ev.body # "absent"
    THEN CASE ev.body = "invalidJson" -> [raised |-> FALSE, query |-> << >>]
           [] ev.body = "nonObject" -> [raised |-> TRUE, query |-> << >>]
           [] ev.body = "noQuestion" -> [raised |-> FALSE, query |-> << >>]
           [] ev.body = "nonStringQuestion" -> [raised |-> TRUE, query |-> << >>]
           [] ev.body = "question" -> [raised |-> FALSE, query |-> ev.bodyQuestion]
    ELSE [raised |-> FALSE, query |-> << >>]

BadRequestResponse ==
    [statusCode |-> 400, error |-> "No question provided", details |-> "",
     answer |-> "", sources |-> {}, context_chunks |-> 0, documents_used |-> 0]

\* the outer except answering 200
ErrorResponseOk(details) ==
    [statusCode |-> 200, error |-> "Internal server error processing your query",
     details |-> details,
     answer |-> "", sources |-> {}, context_chunks |-> 0, documents_used |-> 0]

ErrorResponse(details) ==
    [statusCode |-> 500, error |-> "Internal server error processing your query",
     details |-> details,
     answer |-> "", sources |-> {}, context_chunks |-> 0, documents_used |-> 0]

NoRelevantAnswer == "No relevant information found in the documents."

NoRelevantResponse ==
    [statusCode |-> 200, error |-> "", details |-> "", answer |-> NoRelevantAnswer,
     sources |-> {}, context_chunks |-> 0, documents_used |-> 0]

\* 'if not similar_chunks' never taken
HasChunksAlways(similar) == TRUE

HasChunks(similar) == similar # << >>

\* the source of the first chunk only
SourcesOfFirst(similar) == {similar[1].source_file}

\* set(chunk['source_file'] for chunk in similar_chunks)
SourcesOf(similar) == {similar[i].source_file : i \in 1..Len(similar)}

\* the 200 response counting the records of the store instead of the
\* selected ones
SuccessResponseOfStore(answer, similar) ==
    [statusCode |-> 200, error |-> "", details |-> "", answer |-> answer,
     sources |-> SourcesOf(table),
     context_chunks |-> Len(table),
     documents_used |-> Cardinality(SourcesOf(table))]

SuccessResponse(answer, similar) ==
    [statusCode |-> 200, error |-> "", details |-> "", answer |-> answer,
     sources |-> SourcesOf(similar),
     context_chunks |-> Len(similar),
     documents_used |-> Cardinality(SourcesOf(similar))]

Marker(source_file) ==
    [kind |-> "marker", source_file |-> source_file, document_id |-> "",
     chunk_id |-> "", score |-> 0]

ContentPart(chunk) ==
    [kind |-> "content", source_file |-> chunk.source_file,
     document_id |-> chunk.document_id, chunk_id |-> chunk.chunk_id,
     score |-> chunk.score]

\* lines 381-390: the loop over similar_chunks, up to chunk n
RECURSIVE ContextUpTo(_, _)
ContextUpTo(similar, n) ==
    IF n = 0 THEN << >>
    ELSE LET current_document ==
                 IF n = 1 THEN "" ELSE similar[n - 1].source_file
             source_file == similar[n].source_file
         IN  ContextUpTo(similar, n - 1)
             \o (IF n = 1 \/ source_file # current_document
                 THEN << Marker(source_file) >> ELSE << >>)
             \o << ContentPart(similar[n]) >>

BuildContext(similar) == ContextUpTo(similar, Len(similar))

ProviderErrors == {"ThrottlingException", "AccessDeniedException"}

GeneratedText == "generated answer"

\* invoke_claude_3 returns this instead of raising
ErrorAnswer(err) == "Error: Unable to generate response. " \o err

\* tables a query can find: up to MaxStore records of two source files
Tables ==
    UNION { { FileItems(Files[1], s1) \o FileItems(Files[2], s2) :
                s1 \in FileScores(n[1]), s2 \in FileScores(n[2]) } :
            n \in { m \in (0..MaxStore) \X (0..MaxStore) : m[1] + m[2] <= MaxStore } }

InitQuery ==
    /\ event \in Events
    /\ table \in Tables
    /\ query = << >> /\ scanned = << >> /\ similar_chunks = << >>
    /\ response = NoResponse
    /\ embedCalls = 0 /\ scanCalls = 0 /\ llmCalls = 0
    /\ failure = "none"
    /\ context_parts = << >> /\ startedAfterIngest = FALSE
    /\ qPc = "parse"
    /\ SelIdle /\ SplitIdle /\ SizerIdle /\ ScoreIdle /\ IngestIdle

queryIn == << event, table >>
queryOthers == << selVars, splitVars, sizerVars, scoreVars, ingestVars >>

\* lines 327-347: parse the question, reject an empty one
QParse ==
    /\ qPc = "parse"
    /\ LET parsed == ParseQuestion(event)
       IN  IF parsed.raised
           THEN /\ failure' = "parse"
                /\ response' = ErrorResponse("AttributeError")
                /\ qPc' = "done"
                /\ query' = query
           ELSE /\ failure' = failure
                /\ query' = parsed.query
                /\ IF Strip(parsed.query) = << >>
                   THEN response' = BadRequestResponse /\ qPc' = "done"
                   ELSE response' = response /\ qPc' = "embed"
    /\ UNCHANGED << scanned, similar_chunks, embedCalls, scanCalls, llmCalls >>
    /\ startedAfterIngest' = (ingPc = "done")
    /\ UNCHANGED context_parts
    /\ UNCHANGED << queryIn, queryOthers >>

\* line 353: get_titan_embeddings(query) returns the embedding
QEmbed ==
    /\ qPc = "embed"
    /\ embedCalls' = embedCalls + 1
    /\ qPc' = "scan"
    /\ UNCHANGED << query, scanned, similar_chunks, response, scanCalls, llmCalls, failure >>
    /\ UNCHANGED << context_parts, startedAfterIngest >>
    /\ UNCHANGED << queryIn, queryOthers >>

\* line 353: get_titan_embeddings re-raises, the outer except answers
QEmbedFails ==
    /\ qPc = "embed"
    /\ embedCalls' = embedCalls + 1
    /\ failure' = "embedding"
    /\ \E err \in ProviderErrors : response' = ErrorResponse(err)
    /\ qPc' = "done"
    /\ UNCHANGED << query, scanned, similar_chunks, scanCalls, llmCalls >>
    /\ UNCHANGED << context_parts, startedAfterIngest >>
    /\ UNCHANGED << queryIn, queryOthers >>

\* lines 137-150: one table.scan call returns the next page
QScanPage ==
    /\ qPc = "scan"
    /\ scanCalls' = scanCalls + 1
    /\ LET upto == Min(Len(scanned) + PageSize, Len(table))
       IN  /\ scanned' = scanned \o SubSeq(table, Len(scanned) + 1, upto)
           /\ qPc' = IF upto < Len(table) THEN "scan" ELSE "select"
    /\ UNCHANGED << query, similar_chunks, response, embedCalls, llmCalls, failure >>
    /\ UNCHANGED << context_parts, startedAfterIngest >>
    /\ UNCHANGED << queryIn, queryOthers >>

\* lines 137-141: table.scan raises, nothing in between catches it
QScanFails ==
    /\ qPc = "scan"
    /\ scanCalls' = scanCalls + 1
    /\ failure' = "scan"
    /\ \E err \in ProviderErrors : response' = ErrorResponse(err)
    /\ qPc' = "done"
    /\ UNCHANGED << query, scanned, similar_chunks, embedCalls, llmCalls >>
    /\ UNCHANGED << context_parts, startedAfterIngest >>
    /\ UNCHANGED << queryIn, queryOthers >>

\* lines 152-235 and 358-392: the selection over the scanned items and the
\* context built from it
QSelect ==
    /\ qPc = "select"
    /\ LET similar == search_similar_chunks_balanced(scanned, HandlerLimit)
       IN  /\ similar_chunks' = similar
           /\ IF HasChunks(similar)
              THEN /\ response' = response /\ qPc' = "generate"
                   /\ context_parts' = BuildContext(similar)
              ELSE /\ response' = NoRelevantResponse /\ qPc' = "done"
                   /\ context_parts' = context_parts
    /\ UNCHANGED << query, scanned, embedCalls, scanCalls, llmCalls, failure >>
    /\ UNCHANGED startedAfterIngest
    /\ UNCHANGED << queryIn, queryOthers >>

\* lines 419-436: invoke_claude_3 returns the generated text
QGenerate ==
    /\ qPc = "generate"
    /\ llmCalls' = llmCalls + 1
    /\ response' = SuccessResponse(GeneratedText, similar_chunks)
    /\ qPc' = "done"
    /\ UNCHANGED << query, scanned, similar_chunks, embedCalls, scanCalls, failure >>
    /\ UNCHANGED << context_parts, startedAfterIngest >>
    /\ UNCHANGED << queryIn, queryOthers >>

\* lines 286-289 and 419-436: the model call raises inside invoke_claude_3
QGenerateFails ==
    /\ qPc = "generate"
    /\ llmCalls' = llmCalls + 1
    /\ failure' = "llm"
    /\ \E err \in ProviderErrors :
         response' = SuccessResponse(ErrorAnswer(err), similar_chunks)
    /\ qPc' = "done"
    /\ UNCHANGED << query, scanned, similar_chunks, embedCalls, scanCalls >>
    /\ UNCHANGED << context_parts, startedAfterIngest >>
    /\ UNCHANGED << queryIn, queryOthers >>

NextQuery ==
    \/ QParse
    \/ QEmbed
    \/ QEmbedFails
    \/ QScanPage
    \/ QScanFails
    \/ QSelect
    \/ QGenerate
    \/ QGenerateFails

SpecQuery == InitQuery /\ [][NextQuery]_vars

QueryDone == qPc = "done"

\* positions of context_parts that hold a chunk, a marker
ContentAt == {k \in 1..Len(context_parts) : context_parts[k].kind = "content"}
MarkerAt == {k \in 1..Len(context_parts) : context_parts[k].kind = "marker"}

\* the request carries no question, or one that is empty or all whitespace
QuestionMissing(ev) ==
    IF ev.params = "question" THEN Strip(ev.paramsQuestion) = << >>
    ELSE IF ev.body = "question" THEN Strip(ev.bodyQuestion) = << >>
    ELSE TRUE


(***************************************************************************)
(* lambda_handler of the ingestion (data_ingestion/lambda_function_v2.py). *)
(* The object key is a sequence of characters.  The chunks returned by     *)
(* split_text are held by what the loop looks at: "short" when the         *)
(* stripped chunk has fewer than 50 characters, "long" otherwise.          *)
(***************************************************************************)
max_retries == 3

\* the document_id of the first run used again
DocumentIdOfFirstRun == "uuid-1"

\* str(uuid.uuid4()): a fresh value in every run
DocumentId == "uuid-" \o ToString(ingRun)

ObjectKeys ==
    { << "a", ".", "p", "d", "f" >>,
      << "A", ".", "P", "D", "F" >>,
      << "b", ".", "c", "s", "v" >>,
      << "c", ".", "t", "x", "t" >>,
      << "p", "d", "f" >> }

IngestFileSizes == {50000, 600 * 1024}

ChunkLists == UNION { [1..n -> {"long", "short"}] : n \in 0..MaxIngestChunks }

LowerChar(c) ==
    CASE c = "A" -> "a"
      [] c = "P" -> "p"
      [] c = "D" -> "d"
      [] c = "F" -> "f"
      [] OTHER -> c

\* str.lower()
Lower(k) == [i \in 1..Len(k) |-> LowerChar(k[i])]

\* str.endswith(suffix)
EndsWith(k, suffix) ==
    /\ Len(k) >= Len(suffix)
    /\ SubSeq(k, Len(k) - Len(suffix) + 1, Len(k)) = suffix

\* a key that ends in pdf without the dot taken for a PDF
FileTypeOfNoDot(k) ==
    IF EndsWith(Lower(k), << "p", "d", "f" >>) THEN "PDF"
    ELSE IF EndsWith(Lower(k), << ".", "c", "s", "v" >>) THEN "CSV"
    ELSE "unsupported"

\* lines 314-325
FileTypeOf(k) ==
    IF EndsWith(Lower(k), << ".", "p", "d", "f" >>) THEN "PDF"
    ELSE IF EndsWith(Lower(k), << ".", "c", "s", "v" >>) THEN "CSV"
    ELSE "unsupported"

\* the length test of line 352 never true
ChunkIsShortNever(chunk) == FALSE

\* not chunk.strip() or len(chunk.strip()) < 50
ChunkIsShort(chunk) == chunk = "short"

Call(ok) == [kind |-> "call", ok |-> ok, seconds |-> 0]
Sleep(n) == [kind |-> "sleep", ok |-> FALSE, seconds |-> n]

\* a wait of one second whatever the attempt
BackoffSecondsConstant(k) == 1

\* time.sleep(2 ** attempt)
BackoffSeconds(k) == 2 ^ k

\* the log of the chunk being embedded: empty at its first attempt
CurLog == IF attempt = 0 THEN << >> ELSE embedLog

\* The embedding stored at line 379 is kept as what the query makes of it:
\* it parses, and chunk i gets this final_score.  The same chunk of the same
\* object gets the same embedding, hence the same score, in every run.
EmbeddingScore(i) == 1 + (i % MaxScore)

ChunkItem(i) ==
    [document_id   |-> DocumentId,
     chunk_id      |-> "chunk_" \o ToString(i),
     source_file   |-> decoded_key,
     file_type     |-> ing_file_type,
     size_category |-> chunking_params.size_category,
     chunk_index   |-> i,
     total_chunks  |-> Len(ing_chunks),
     scorable      |-> TRUE,
     score         |-> EmbeddingScore(i)]

\* a put_item that writes nothing
PutItemNothing(tbl, item) == tbl

\* table.put_item: replaces the record of the same key, else adds one
PutItem(tbl, item) ==
    IF \E j \in 1..Len(tbl) :
          tbl[j].document_id = item.document_id /\ tbl[j].chunk_id = item.chunk_id
    THEN [j \in 1..Len(tbl) |->
            IF tbl[j].document_id = item.document_id /\ tbl[j].chunk_id = item.chunk_id
            THEN item ELSE tbl[j]]
    ELSE Append(tbl, item)

\* the 200 response with chunks_failed left at zero
IngestResponseNoFailures(processed, failed, ftype, cparams) ==
    [statusCode |-> 200, document_id |-> DocumentId,
     chunks_processed |-> processed, chunks_failed |-> 0,
     file_type |-> ftype, size_category |-> cparams.size_category,
     chunk_size |-> cparams.chunk_size, chunk_overlap |-> cparams.chunk_overlap,
     max_chunks |-> cparams.max_chunks]

IngestResponse(processed, failed, ftype, cparams) ==
    [statusCode |-> 200, document_id |-> DocumentId,
     chunks_processed |-> processed, chunks_failed |-> failed,
     file_type |-> ftype, size_category |-> cparams.size_category,
     chunk_size |-> cparams.chunk_size, chunk_overlap |-> cparams.chunk_overlap,
     max_chunks |-> cparams.max_chunks]

IngestStatus(code) == [NoIngestResponse EXCEPT !.statusCode = code]

InitIngest ==
    /\ decoded_key \in ObjectKeys
    /\ ing_file_size \in IngestFileSizes
    /\ object_chunks \in ChunkLists
    /\ ing_file_type = "none" /\ chunking_params = NoParams /\ ing_chunks = << >>
    /\ ingI = 0 /\ attempt = 0 /\ embedLog = << >> /\ logChunk = 0
    /\ outcomes = << >> /\ processed_chunks = 0 /\ failed_chunks = 0
    /\ ingResponse = NoIngestResponse
    /\ ingFailure = "none" /\ ingEmbedTotal = 0 /\ ingPutCalls = 0 /\ ingRun = 1
    /\ ingPc = "start"
    /\ SelIdle /\ SplitIdle /\ SizerIdle /\ ScoreIdle /\ QueryIdle

ingestIn == << decoded_key, ing_file_size, object_chunks >>
ingestOthers == << selVars, splitVars, sizerVars, scoreVars, queryCtl >>

\* lines 314-325: neither .pdf nor .csv
IRejectUnsupported ==
    /\ ingPc = "start"
    /\ FileTypeOf(decoded_key) = "unsupported"
    /\ ingResponse' = IngestStatus(400)
    /\ ingPc' = "done"
    /\ UNCHANGED << ing_file_type, chunking_params, ing_chunks, ingI, attempt,
                    embedLog, logChunk, outcomes, processed_chunks, failed_chunks >>
    /\ UNCHANGED << ingFailure, ingEmbedTotal, ingPutCalls, ingRun >>
    /\ UNCHANGED << table, ingestIn, ingestOthers >>

\* lines 308-347: extraction, chunking parameters, split_text
IPrepare ==
    /\ ingPc = "start"
    /\ FileTypeOf(decoded_key) # "unsupported"
    /\ ing_file_type' = FileTypeOf(decoded_key)
    /\ chunking_params' = get_chunking_parameters(ing_file_size, FileTypeOf(decoded_key))
    /\ ing_chunks' = object_chunks
    /\ ingPc' = "loop"
    /\ UNCHANGED << ingI, attempt, embedLog, logChunk, outcomes,
                    processed_chunks, failed_chunks, ingResponse >>
    /\ UNCHANGED << ingFailure, ingEmbedTotal, ingPutCalls, ingRun >>
    /\ UNCHANGED << table, ingestIn, ingestOthers >>

\* lines 308, 418-425: head_object raises, whatever the key
IHeadObjectFails ==
    /\ ingPc = "start"
    /\ ingFailure' = "head_object"
    /\ ingResponse' = IngestStatus(500)
    /\ ingPc' = "done"
    /\ UNCHANGED << ing_file_type, chunking_params, ing_chunks, ingI, attempt,
                    embedLog, logChunk, outcomes, processed_chunks, failed_chunks >>
    /\ UNCHANGED << ingEmbedTotal, ingPutCalls, ingRun >>
    /\ UNCHANGED << table, ingestIn, ingestOthers >>

\* lines 314-319, 418-425: process_pdf or process_csv raises
IExtractFails ==
    /\ ingPc = "start"
    /\ FileTypeOf(decoded_key) # "unsupported"
    /\ ingFailure' = "extraction"
    /\ ingResponse' = IngestStatus(500)
    /\ ingPc' = "done"
    /\ UNCHANGED << ing_file_type, chunking_params, ing_chunks, ingI, attempt,
                    embedLog, logChunk, outcomes, processed_chunks, failed_chunks >>
    /\ UNCHANGED << ingEmbedTotal, ingPutCalls, ingRun >>
    /\ UNCHANGED << table, ingestIn, ingestOthers >>

AtChunk == ingPc = "loop" /\ ingI < Len(ing_chunks)

\* lines 352-354: the chunk is skipped
ISkipShort ==
    /\ AtChunk
    /\ ChunkIsShort(ing_chunks[ingI + 1])
    /\ outcomes' = Append(outcomes, "skipped")
    /\ embedLog' = << >> /\ logChunk' = ingI
    /\ ingI' = ingI + 1
    /\ UNCHANGED << ing_file_type, chunking_params, ing_chunks, attempt,
                    processed_chunks, failed_chunks, ingResponse, ingPc >>
    /\ UNCHANGED << ingFailure, ingEmbedTotal, ingPutCalls, ingRun >>
    /\ UNCHANGED << table, ingestIn, ingestOthers >>

\* lines 362-365: get_titan_embeddings returns, break
IEmbedOk ==
    /\ AtChunk
    /\ ~ChunkIsShort(ing_chunks[ingI + 1])
    /\ embedLog' = Append(CurLog, Call(TRUE)) /\ logChunk' = ingI
    /\ ingPc' = "put"
    /\ UNCHANGED << ing_file_type, chunking_params, ing_chunks, ingI, attempt,
                    outcomes, processed_chunks, failed_chunks, ingResponse >>
    /\ ingEmbedTotal' = ingEmbedTotal + 1
    /\ UNCHANGED << ingFailure, ingPutCalls, ingRun >>
    /\ UNCHANGED << table, ingestIn, ingestOthers >>

\* lines 366-370: the call raises before the last attempt, wait and go on
IEmbedRetry ==
    /\ AtChunk
    /\ ~ChunkIsShort(ing_chunks[ingI + 1])
    /\ attempt # max_retries - 1
    /\ embedLog' = CurLog \o << Call(FALSE), Sleep(BackoffSeconds(attempt)) >>
    /\ logChunk' = ingI
    /\ attempt' = attempt + 1
    /\ UNCHANGED << ing_file_type, chunking_params, ing_chunks, ingI,
                    outcomes, processed_chunks, failed_chunks, ingResponse, ingPc >>
    /\ ingEmbedTotal' = ingEmbedTotal + 1
    /\ UNCHANGED << ingFailure, ingPutCalls, ingRun >>
    /\ UNCHANGED << table, ingestIn, ingestOthers >>

\* lines 366-368, 392-395: the last attempt raises, the chunk is given up
IEmbedGiveUp ==
    /\ AtChunk
    /\ ~ChunkIsShort(ing_chunks[ingI + 1])
    /\ attempt = max_retries - 1
    /\ embedLog' = Append(CurLog, Call(FALSE)) /\ logChunk' = ingI
    /\ failed_chunks' = failed_chunks + 1
    /\ outcomes' = Append(outcomes, "embed_failed")
    /\ ingI' = ingI + 1
    /\ attempt' = 0
    /\ UNCHANGED << ing_file_type, chunking_params, ing_chunks,
                    processed_chunks, ingResponse, ingPc >>
    /\ ingEmbedTotal' = ingEmbedTotal + 1
    /\ UNCHANGED << ingFailure, ingPutCalls, ingRun >>
    /\ UNCHANGED << table, ingestIn, ingestOthers >>

\* lines 373-390: the record is written
IPut ==
    /\ ingPc = "put"
    /\ table' = PutItem(table, ChunkItem(ingI))
    /\ processed_chunks' = processed_chunks + 1
    /\ outcomes' = Append(outcomes, "stored")
    /\ ingI' = ingI + 1
    /\ attempt' = 0
    /\ ingPc' = "loop"
    /\ UNCHANGED << ing_file_type, chunking_params, ing_chunks, embedLog, logChunk,
                    failed_chunks, ingResponse >>
    /\ ingPutCalls' = ingPutCalls + 1
    /\ UNCHANGED << ingFailure, ingEmbedTotal, ingRun >>
    /\ UNCHANGED << ingestIn, ingestOthers >>

\* lines 388, 392-395: put_item raises
IPutFails ==
    /\ ingPc = "put"
    /\ failed_chunks' = failed_chunks + 1
    /\ outcomes' = Append(outcomes, "put_failed")
    /\ ingI' = ingI + 1
    /\ attempt' = 0
    /\ ingPc' = "loop"
    /\ UNCHANGED << ing_file_type, chunking_params, ing_chunks, embedLog, logChunk,
                    processed_chunks, ingResponse >>
    /\ ingPutCalls' = ingPutCalls + 1
    /\ UNCHANGED << ingFailure, ingEmbedTotal, ingRun >>
    /\ UNCHANGED << table, ingestIn, ingestOthers >>

\* lines 397-416: the loop is over
IFinish ==
    /\ ingPc = "loop"
    /\ ingI = Len(ing_chunks)
    /\ ingResponse' = IngestResponse(processed_chunks, failed_chunks,
                                     ing_file_type, chunking_params)
    /\ ingPc' = "done"
    /\ UNCHANGED << ing_file_type, chunking_params, ing_chunks, ingI, attempt,
                    embedLog, logChunk, outcomes, processed_chunks, failed_chunks >>
    /\ UNCHANGED << ingFailure, ingEmbedTotal, ingPutCalls, ingRun >>
    /\ UNCHANGED << table, ingestIn, ingestOthers >>

NextIngest ==
    \/ IRejectUnsupported
    \/ IPrepare
    \/ IHeadObjectFails
    \/ IExtractFails
    \/ ISkipShort
    \/ IEmbedOk
    \/ IEmbedRetry
    \/ IEmbedGiveUp
    \/ IPut
    \/ IPutFails
    \/ IFinish

SpecIngest == InitIngest /\ [][NextIngest]_vars

(***************************************************************************)
(* The two handlers running against the same table: one ingestion of an    *)
(* object and one query, their steps interleaved in any order.  Every      *)
(* put_item and every table.scan page is one step; nothing orders them.    *)
(***************************************************************************)
ServiceKeys == { << "a", ".", "p", "d", "f" >>, << "c", ".", "t", "x", "t" >> }

ServiceEvents ==
    { [params |-> "question", paramsQuestion |-> q,
       body |-> "absent", bodyQuestion |-> << >>] : q \in { << "a" >>, << " " >> } }

InitConcurrent ==
    /\ decoded_key \in ServiceKeys
    /\ ing_file_size = 50000
    /\ object_chunks \in ChunkLists
    /\ ing_file_type = "none" /\ chunking_params = NoParams /\ ing_chunks = << >>
    /\ ingI = 0 /\ attempt = 0 /\ embedLog = << >> /\ logChunk = 0
    /\ outcomes = << >> /\ processed_chunks = 0 /\ failed_chunks = 0
    /\ ingResponse = NoIngestResponse
    /\ ingFailure = "none" /\ ingEmbedTotal = 0 /\ ingPutCalls = 0 /\ ingRun = 1
    /\ ingPc = "start"
    /\ event \in ServiceEvents
    /\ table = << >>
    /\ query = << >> /\ scanned = << >> /\ similar_chunks = << >>
    /\ response = NoResponse
    /\ embedCalls = 0 /\ scanCalls = 0 /\ llmCalls = 0
    /\ failure = "none"
    /\ context_parts = << >> /\ startedAfterIngest = FALSE
    /\ qPc = "parse"
    /\ SelIdle /\ SplitIdle /\ SizerIdle /\ ScoreIdle

NextConcurrent == NextIngest \/ NextQuery

(***************************************************************************)
(* The same object ingested again: a further invocation of the ingestion   *)
(* handler for the same key, once the earlier one has returned.  The table *)
(* keeps what the earlier runs wrote.  The query request arrives later,    *)
(* when the last of these invocations has returned.                        *)
(***************************************************************************)
InitReingest ==
    /\ decoded_key \in ServiceKeys
    /\ ing_file_size = 50000
    /\ object_chunks \in ChunkLists
    /\ ing_file_type = "none" /\ chunking_params = NoParams /\ ing_chunks = << >>
    /\ ingI = 0 /\ attempt = 0 /\ embedLog = << >> /\ logChunk = 0
    /\ outcomes = << >> /\ processed_chunks = 0 /\ failed_chunks = 0
    /\ ingResponse = NoIngestResponse
    /\ ingFailure = "none" /\ ingEmbedTotal = 0 /\ ingPutCalls = 0 /\ ingRun = 1
    /\ ingPc = "start"
    /\ SelIdle /\ SplitIdle /\ SizerIdle /\ ScoreIdle /\ QueryIdle

IRestart ==
    /\ ingPc = "done"
    /\ ingRun < MaxRuns
    /\ qPc = "idle"
    /\ ingRun' = ingRun + 1
    /\ ing_file_type' = "none" /\ chunking_params' = NoParams /\ ing_chunks' = << >>
    /\ ingI' = 0 /\ attempt' = 0 /\ embedLog' = << >> /\ logChunk' = 0
    /\ outcomes' = << >> /\ processed_chunks' = 0 /\ failed_chunks' = 0
    /\ ingResponse' = NoIngestResponse
    /\ ingFailure' = "none" /\ ingEmbedTotal' = 0 /\ ingPutCalls' = 0
    /\ ingPc' = "start"
    /\ UNCHANGED << table, ingestIn, ingestOthers >>

\* the query handler is invoked
QArrive ==
    /\ qPc = "idle"
    /\ ingPc = "done"
    /\ event' \in ServiceEvents
    /\ qPc' = "parse"
    /\ UNCHANGED << query, scanned, similar_chunks, response, embedCalls,
                    scanCalls, llmCalls, failure, context_parts,
                    startedAfterIngest >>
    /\ UNCHANGED << table, selVars, splitVars, sizerVars, scoreVars, ingestVars >>

NextReingest == NextIngest \/ IRestart \/ QArrive \/ NextQuery

SpecReingest == InitReingest /\ [][NextReingest]_vars

SpecConcurrent == InitConcurrent /\ [][NextConcurrent]_vars

IngestDone == ingPc = "done"

\* the key ends in .pdf or .csv, whatever the case of its letters
EndsInPdfOrCsv(k) ==
    \/ EndsWith(Lower(k), << ".", "p", "d", "f" >>)
    \/ EndsWith(Lower(k), << ".", "c", "s", "v" >>)

\* chunks given up so far, as 0-based indices
GivenUp(kind) == {i \in 0..(Len(outcomes) - 1) : outcomes[i + 1] = kind}

Stored(i) == \E j \in 1..Len(table) :
                table[j].document_id = DocumentId /\ table[j].chunk_index = i

\* records of the table written under the document_id of this run
RecordsOfRun == {j \in 1..Len(table) : table[j].document_id = DocumentId}

\* embedding calls logged before position k of embedLog
CallsBefore(k) == Cardinality({j \in 1..(k - 1) : embedLog[j].kind = "call"})


(***************************************************************************)
(* C11: split_text terminates on every input, chunk_overlap = 0 and        *)
(* chunk_overlap >= chunk_size included, and returns at most max_chunks    *)
(* chunks; its loop stops exactly when the cursor has reached the text     *)
(* length or max_chunks chunks have been emitted.                          *)
(***************************************************************************)
C11_Terminates ==
    /\ <>SplitDone
    /\ [](SplitDone =>
            /\ Len(chunks) <= max_chunks
            /\ (start >= Len(text) \/ Len(chunks) >= max_chunks))
    /\ [][(splitPc = "loop" /\ (start >= Len(text) \/ Len(chunks) >= max_chunks))
            => splitPc' = "done"]_vars

\* chunk_overlap >= chunk_size: the cursor never advances, max_chunks ends it
C11_Witness ==
    /\ SplitDone
    /\ chunk_overlap >= chunk_size
    /\ max_chunks >= 2
    /\ Len(chunks) = max_chunks
    /\ start < Len(text)

(***************************************************************************)
(* C12 as stated: get_chunking_parameters for a PDF of 50,000 bytes returns*)
(* size_category medium, chunk_size 2500, chunk_overlap 375, max_chunks 50.*)
(***************************************************************************)
C12_Pdf50000_Original ==
    (SizerDone /\ file_type = "PDF" /\ file_size = 50000) =>
        params = [chunk_size |-> 2500, chunk_overlap |-> 375, max_chunks |-> 50,
                  size_category |-> "medium"]

(***************************************************************************)
(* C12, amended: get_chunking_parameters for a PDF of 50,000 bytes returns *)
(* size_category small, chunk_size 2000, chunk_overlap 300, max_chunks 20; *)
(* the medium parameters 2500, 375, 50 are returned for PDFs from 102,400  *)
(* up to 511,999 bytes.                                                    *)
(***************************************************************************)
C12_Pdf50000 ==
    /\ (SizerDone /\ file_type = "PDF" /\ file_size = 50000) =>
            params = [chunk_size |-> 2000, chunk_overlap |-> 300, max_chunks |-> 20,
                      size_category |-> "small"]
    /\ (SizerDone /\ file_type = "PDF"
            /\ file_size >= 102400 /\ file_size <= 511999) =>
            params = [chunk_size |-> 2500, chunk_overlap |-> 375, max_chunks |-> 50,
                      size_category |-> "medium"]

C12_Witness ==
    SizerDone /\ file_type = "PDF" /\ file_size = 50000 /\ params.max_chunks = 20

(***************************************************************************)
(* C13: for PDF and CSV and every byte size >= 0 the returned parameters   *)
(* satisfy chunk_overlap < chunk_size, chunk_overlap being the type's      *)
(* overlap percentage of chunk_size rounded down to an integer.            *)
(***************************************************************************)
C13_OverlapBelowSize ==
    SizerDone =>
        LET pct == IF file_type = "PDF" THEN 15 ELSE 10
        IN  /\ params.chunk_overlap < params.chunk_size
            /\ params.chunk_overlap * 100 <= params.chunk_size * pct
            /\ (params.chunk_overlap + 1) * 100 > params.chunk_size * pct

C13_Witness ==
    SizerDone /\ file_type = "CSV" /\ params.size_category = "xlarge"
              /\ params.chunk_overlap = 300

C15_EmptyQuestionRejected ==
    (QueryDone /\ QuestionMissing(event)) =>
        /\ response.statusCode = 400
        /\ response.error # ""
        /\ embedCalls = 0 /\ scanCalls = 0 /\ llmCalls = 0

(***************************************************************************)
(* C16: a valid question and an empty selection give a 200 response with   *)
(* the fixed no-relevant-information answer, sources = [], context_chunks  *)
(* = 0 and documents_used = 0, and the language model is never invoked.    *)
(***************************************************************************)
C16_EmptySelection ==
    (QueryDone /\ failure = "none" /\ Strip(query) # << >> /\ similar_chunks = << >>) =>
        /\ response.statusCode = 200
        /\ response.answer = NoRelevantAnswer
        /\ response.sources = {}
        /\ response.context_chunks = 0
        /\ response.documents_used = 0
        /\ llmCalls = 0

\* the table holds records, none of them can be scored
C16_Witness ==
    /\ QueryDone /\ failure = "none" /\ Strip(query) # << >>
    /\ table # << >> /\ scanned = table /\ similar_chunks = << >>
    /\ response.answer = NoRelevantAnswer

(***************************************************************************)
(* C17: when the language-model call fails on a non-empty selection the    *)
(* failure is not propagated: the response is a 200 whose answer is the    *)
(* error text of the provider call, with sources, context_chunks and       *)
(* documents_used computed from the selection as for a successful answer.  *)
(***************************************************************************)
C17_LlmFailureAnswered ==
    (QueryDone /\ failure = "llm") =>
        /\ similar_chunks # << >>
        /\ response.statusCode = 200
        /\ response.error = ""
        /\ \E err \in ProviderErrors : response.answer = ErrorAnswer(err)
        /\ response.sources = {similar_chunks[i].source_file : i \in 1..Len(similar_chunks)}
        /\ response.context_chunks = Len(similar_chunks)
        /\ response.documents_used = Cardinality(response.sources)

C17_Witness ==
    /\ QueryDone /\ failure = "llm"
    /\ response.statusCode = 200
    /\ response.documents_used = 2
    /\ response.context_chunks = 3

(***************************************************************************)
(* C18: when the query-embedding call or the store scan fails the query is *)
(* aborted with a 500 response; the embedding call is attempted exactly    *)
(* once and the language model is never invoked.                           *)
(***************************************************************************)
C18_EmbedOrScanFailure ==
    /\ embedCalls <= 1
    /\ (QueryDone /\ failure \in {"embedding", "scan"}) =>
            /\ response.statusCode = 500
            /\ response.error # ""
            /\ embedCalls = 1
            /\ llmCalls = 0

\* the scan fails on its second page
C18_Witness ==
    /\ QueryDone /\ failure = "scan"
    /\ scanCalls = 2 /\ Len(scanned) = PageSize
    /\ response.statusCode = 500

(***************************************************************************)
(* C19: a chunk whose embedding call fails on every attempt is not written *)
(* to the store and adds exactly 1 to chunks_failed; the chunks after it   *)
(* are still embedded and stored, and the handler finishes with a 200      *)
(* response reporting the counts.                                          *)
(***************************************************************************)
C19_FailedChunkIsolated ==
    /\ failed_chunks = Cardinality(GivenUp("embed_failed")) + Cardinality(GivenUp("put_failed"))
    /\ processed_chunks = Cardinality(GivenUp("stored"))
    /\ \A i \in GivenUp("embed_failed") : ~Stored(i)
    /\ \A i \in GivenUp("stored") : Stored(i)
    /\ (IngestDone /\ GivenUp("embed_failed") # {}) =>
            /\ Len(outcomes) = Len(ing_chunks)
            /\ ingResponse.statusCode = 200
            /\ ingResponse.chunks_failed = failed_chunks
            /\ ingResponse.chunks_processed = processed_chunks

\* chunk 0 is given up, chunk 1 is embedded and stored
C19_Witness ==
    /\ IngestDone
    /\ outcomes = << "embed_failed", "stored" >>
    /\ ~Stored(0) /\ Stored(1)
    /\ ingResponse.statusCode = 200
    /\ ingResponse.chunks_failed = 1
    /\ ingResponse.chunks_processed = 1

(***************************************************************************)
(* C20: for each chunk the embedding provider is called at most 3 times    *)
(* and not again after a success; a wait of 2^k seconds follows failed     *)
(* attempt k for k = 0, 1 and nothing else, and no wait follows the third  *)
(* failure.                                                                *)
(***************************************************************************)
C20_RetryBackoff ==
    /\ Cardinality({k \in 1..Len(embedLog) : embedLog[k].kind = "call"}) <= 3
    /\ \A k \in 1..Len(embedLog) :
         LET e == embedLog[k]
         IN  /\ (e.kind = "call" /\ e.ok) => k = Len(embedLog)
             /\ (e.kind = "call" /\ ~e.ok /\ CallsBefore(k) < 2) =>
                    /\ k < Len(embedLog)
                    /\ embedLog[k + 1] = Sleep(2 ^ CallsBefore(k))
             /\ (e.kind = "call" /\ ~e.ok /\ CallsBefore(k) >= 2) => k = Len(embedLog)
             /\ e.kind = "sleep" =>
                    /\ k > 1
                    /\ embedLog[k - 1] = Call(FALSE)
                    /\ CallsBefore(k) \in {1, 2}
                    /\ e.seconds = 2 ^ (CallsBefore(k) - 1)

\* three failures with waits of 1 and 2 seconds in between, none after
C20_Witness ==
    /\ embedLog = << Call(FALSE), Sleep(1), Call(FALSE), Sleep(2), Call(FALSE) >>
    /\ outcomes # << >>
    /\ outcomes[Len(outcomes)] = "embed_failed"

(***************************************************************************)
(* C21: after any ingestion run, runs that drop short chunks or give up    *)
(* chunks included, the chunk_index values of the records stored for the   *)
(* document are exactly 0..total_chunks-1, total_chunks being the value    *)
(* recorded on those records.                                              *)
(***************************************************************************)
C21_ContiguousIndices ==
    IngestDone =>
        \A j \in 1..Len(table) :
            {table[k].chunk_index : k \in 1..Len(table)} = 0..(table[j].total_chunks - 1)

C24_ForwardProgress ==
    (SplitDone /\ ValidChunking) =>
        \A k \in 1..(Len(chunks) - 1) :
            /\ chunks[k + 1][1] - 1 = (chunks[k][1] - 1) + chunk_size - chunk_overlap
            /\ chunks[k + 1][1] > chunks[k][1]
            /\ chunks[k + 1] # chunks[k]

(***************************************************************************)
(* C25: in the context assembled by the query handler the selected chunks  *)
(* are grouped by source document: the chunks of one source document are   *)
(* contiguous, in score-descending order within the group, and the marker  *)
(* of each source document appears exactly once.                           *)
(***************************************************************************)
C25_GroupedContext ==
    /\ \A a \in ContentAt : \A b \in ContentAt :
         (a < b /\ context_parts[a].source_file = context_parts[b].source_file) =>
            /\ context_parts[a].score >= context_parts[b].score
            /\ \A c \in ContentAt :
                 (a < c /\ c < b) =>
                    context_parts[c].source_file = context_parts[a].source_file
    /\ \A a \in MarkerAt : \A b \in MarkerAt :
         context_parts[a].source_file = context_parts[b].source_file => a = b
    /\ \A a \in ContentAt : \E b \in MarkerAt :
         context_parts[b].source_file = context_parts[a].source_file

(***************************************************************************)
(* C26: during ingestion a chunk whose whitespace-trimmed length is under  *)
(* 50 characters is dropped before any downstream step: it is never sent   *)
(* to the embedding provider, never written to the store, and counted in   *)
(* neither chunks_processed nor chunks_failed.  The step the handler takes *)
(* at such a chunk moves to the next chunk and changes nothing else.       *)
(***************************************************************************)
C26_ShortChunkDropped ==
    /\ [](\A i \in 0..(Len(outcomes) - 1) :
            ing_chunks[i + 1] = "short" => (outcomes[i + 1] = "skipped" /\ ~Stored(i)))
    /\ [][(ingPc = "loop" /\ ingI < Len(ing_chunks) /\ ing_chunks[ingI + 1] = "short") =>
            /\ ingI' = ingI + 1
            /\ ingPc' = "loop"
            /\ ingEmbedTotal' = ingEmbedTotal
            /\ ingPutCalls' = ingPutCalls
            /\ table' = table
            /\ processed_chunks' = processed_chunks
            /\ failed_chunks' = failed_chunks]_vars

\* a short chunk followed by a long one that is stored
C26_Witness ==
    /\ IngestDone
    /\ ing_chunks = << "short", "long" >>
    /\ outcomes = << "skipped", "stored" >>
    /\ ingEmbedTotal = 1 /\ ingPutCalls = 1
    /\ ingResponse.chunks_processed = 1 /\ ingResponse.chunks_failed = 0

(***************************************************************************)
(* C27: when an ingestion run completes with status 200 every chunk        *)
(* returned by split_text has been accounted for exactly once as stored,   *)
(* failed or dropped as short (chunks_processed + chunks_failed + dropped  *)
(* = number of chunks), chunks_processed is the number of records put      *)
(* under the returned document_id, and a failed put counts the chunk as    *)
(* failed without a second put.                                            *)
(***************************************************************************)
C27_EveryChunkAccounted ==
    (IngestDone /\ ingResponse.statusCode = 200) =>
        /\ Len(outcomes) = Len(ing_chunks)
        /\ ingResponse.chunks_processed + ingResponse.chunks_failed
             + Cardinality(GivenUp("skipped")) = Len(ing_chunks)
        /\ ingResponse.chunks_processed = Cardinality(RecordsOfRun)
        /\ ingResponse.document_id = DocumentId
        /\ ingResponse.chunks_failed
             = Cardinality(GivenUp("embed_failed")) + Cardinality(GivenUp("put_failed"))
        /\ ingPutCalls = Cardinality(GivenUp("stored")) + Cardinality(GivenUp("put_failed"))

\* the put of chunk 0 fails, chunk 1 is stored
C27_Witness ==
    /\ IngestDone /\ ingResponse.statusCode = 200
    /\ outcomes = << "put_failed", "stored" >>
    /\ ingPutCalls = 2
    /\ ingResponse.chunks_failed = 1
    /\ Cardinality(RecordsOfRun) = 1


(***************************************************************************)
(* C30: a stored record that cannot be scored never appears in the         *)
(* selection result and does not abort the selection, but its source       *)
(* document is counted in number_of_distinct_documents: chunks_per_document*)
(* is max(2, limit div number of source_file values of all records), and   *)
(* every record of the result is in the balanced pool computed with that   *)
(* lowered value or in the quality pool.                                   *)
(***************************************************************************)
C30_UnscorableSkippedButCounted ==
    SelDone =>
        LET union == StepUnion(Cardinality(AllSources))
        IN  /\ \A i \in 1..Len(items) : ~items[i].scorable => ~InResult(i)
            /\ ChunksPerDocument(items, limit) = StepCpd(Cardinality(AllSources))
            /\ \A k \in 1..Len(result) : \E i \in union : result[k] = items[i]

\* a document without any scorable record lowers chunks_per_document, and a
\* record the higher value would have admitted is left out of a result
\* that is shorter than limit
C30_Witness ==
    /\ SelDone
    /\ AllSources \ ScoredSources # {}
    /\ StepCpd(Cardinality(AllSources)) < StepCpd(Cardinality(ScoredSources))
    /\ Len(result) < limit
    /\ \E i \in StepUnion(Cardinality(ScoredSources)) : ~InResult(i)


\* the chunks of the deduplicated union of both pools, before line 221
BeforeTruncation ==
    LET unique == UniqueChunks(SelectedChunks(items, limit))
    IN  [k \in 1..Len(unique) |-> unique[k].value.item]

(***************************************************************************)
(* C28: with pairwise distinct scores, the chunks of any one source        *)
(* document in the result are a prefix of that document's score ranking,   *)
(* before truncation no document contributes more than                     *)
(* max(chunks_per_document, min(6, limit)) chunks, and the result is       *)
(* ordered by score descending.                                            *)
(***************************************************************************)
C28_PrefixPerDocument ==
    (/\ SelDone
     /\ \A i, j \in ScorableIdx : i # j => items[i].score # items[j].score)
    => LET pre == BeforeTruncation
           cap == Max(StepCpd(Cardinality(AllSources)), Min(6, limit))
       IN  /\ \A i \in ScorableIdx : InResult(i) =>
                 \A j \in SameSource(i) :
                    items[j].score > items[i].score => InResult(j)
           /\ \A f \in AllSources :
                 Cardinality({ k \in 1..Len(pre) : pre[k].source_file = f }) <= cap
           /\ \A k, l \in 1..Len(result) :
                 k < l => result[k].score > result[l].score

\* two documents, one of them in the result with more chunks than
\* chunks_per_document, and a chunk of it cut by the truncation
C28_Witness ==
    /\ SelDone
    /\ Cardinality(AllSources) = 2
    /\ \A i, j \in ScorableIdx : i # j => items[i].score # items[j].score
    /\ \E f \in AllSources :
          /\ Cardinality({ k \in 1..Len(result) : result[k].source_file = f })
                > StepCpd(2)
          /\ \E i \in ScorableIdx : items[i].source_file = f /\ ~InResult(i)
    /\ Len(BeforeTruncation) > limit


\* the query went through the scan and the selection without a failure
\* before the model call
QueryAnswered ==
    /\ QueryDone
    /\ failure \in {"none", "llm"}
    /\ response.statusCode = 200

\* scanned is made of records of the table, in the order of the table
ScannedFromTable ==
    /\ Len(scanned) <= Len(table)
    /\ \A k \in 1..Len(scanned) : scanned[k] = table[k]

\* how far the query handler has come
QueryRank ==
    CASE qPc = "parse" -> 1
      [] qPc = "embed" -> 2
      [] qPc = "scan" -> 3
      [] qPc = "select" -> 4
      [] qPc = "generate" -> 5
      [] qPc = "done" -> 6
      [] OTHER -> 0

\* a step of the query moves it to a later position, or reads a further
\* page of a scan that the records written meanwhile have made longer
QueryAdvances ==
    (queryCtl' # queryCtl) =>
        \/ QueryRank' > QueryRank
        \/ qPc = "scan" /\ qPc' = "scan" /\ Len(scanned') > Len(scanned)

\* what holds of the query at every moment of the interleaving
AnsweredFromScanned ==
    /\ ScannedFromTable
    /\ QueryAnswered =>
          LET similar == search_similar_chunks_balanced(scanned, HandlerLimit)
          IN  /\ similar_chunks = similar
              /\ IF similar = << >>
                 THEN response = NoRelevantResponse
                 ELSE /\ response.sources = {scanned[k].source_file : k \in 1..Len(scanned)}
                      /\ response.context_chunks = Len(scanned)
                      /\ response.documents_used = 1
                      /\ response.error = ""
    /\ (startedAfterIngest /\ (qPc \in {"select", "generate"} \/ QueryAnswered))
          => scanned = table

(***************************************************************************)
(* C23: with one ingestion and one query interleaved, the records the      *)
(* query scanned are records of the store; a query that got past the scan  *)
(* ends with a well-formed 200 response computed from the records it       *)
(* scanned alone (their selection, their sources, their count), however    *)
(* few of the document's records these are; a query started after the      *)
(* ingestion returned has scanned every stored record of the document when *)
(* it selects; and every step of the query brings it nearer to its end,    *)
(* whatever the ingestion does in between.                                 *)
(***************************************************************************)
C23_PartialDocumentTolerated ==
    []AnsweredFromScanned /\ [][QueryAdvances]_vars

\* the ingestion stored two records of the document, the query that ran
\* beside it scanned one of them and answered from it
C23_Witness ==
    /\ QueryAnswered
    /\ ~startedAfterIngest
    /\ IngestDone /\ processed_chunks = 2
    /\ Len(table) = 2 /\ Len(scanned) = 1
    /\ response.context_chunks = 1
    /\ response.sources = {decoded_key}


\* a put adds one record after those already stored and touches none of them
PutKeepsEarlier ==
    (table' # table) =>
        /\ Len(table') = Len(table) + 1
        /\ SubSeq(table', 1, Len(table)) = table
        /\ table'[Len(table')].document_id = DocumentId
        /\ \A j \in 1..Len(table) :
              ~SameKey(table[j], table'[Len(table')])

\* the query came in after the last ingestion of the object had returned,
\* and selected something
LaterQueryAnswered ==
    /\ QueryAnswered /\ startedAfterIngest
    /\ similar_chunks # << >>

\* the records of all runs are of one source_file, those under the
\* document_id of the current run are the ones it stored, and a later
\* query takes them all for one document
OneDocumentManyRuns ==
    /\ \A j \in 1..Len(table) : table[j].source_file = decoded_key
    /\ Cardinality(RecordsOfRun) = processed_chunks
    /\ LaterQueryAnswered =>
          /\ Len(ItemsBySource(scanned)) = 1
          /\ ChunksPerDocument(scanned, HandlerLimit) = HandlerLimit
          /\ response.sources = {decoded_key}
          /\ response.documents_used = 1
          /\ response.context_chunks = Len(table)
          /\ \A j \in 1..Len(table) :
                \E k \in 1..Len(similar_chunks) : similar_chunks[k] = table[j]
          /\ \A k, l \in 1..Len(similar_chunks) :
                k # l => ~SameKey(similar_chunks[k], similar_chunks[l])

(***************************************************************************)
(* C29: when the same object key is ingested again, every put adds a       *)
(* record under the document_id of the running invocation, which no        *)
(* earlier record carries, and leaves the records of the earlier runs as   *)
(* they are; a later query counts the runs as one document (one source in  *)
(* number_of_distinct_documents, sources and documents_used) while the     *)
(* same chunk stored by two runs stays two entries, distinct by            *)
(* (document_id, chunk_id), both of them in the result.                    *)
(***************************************************************************)
C29_ReingestionAddsRecords ==
    []OneDocumentManyRuns /\ [][PutKeepsEarlier]_vars

\* chunk 0 stored by both runs, both records selected, one document counted
C29_Witness ==
    /\ LaterQueryAnswered
    /\ ingRun = 2
    /\ response.documents_used = 1
    /\ \E k, l \in 1..Len(similar_chunks) :
          /\ similar_chunks[k].document_id # similar_chunks[l].document_id
          /\ similar_chunks[k].chunk_id = similar_chunks[l].chunk_id
          /\ similar_chunks[k].source_file = similar_chunks[l].source_file

====
